---- MODULE Spec2Model ----
(***************************************************************************)
(* Model of time-series-prediction/prediction.py: the seasonal-naive       *)
(* forecaster predict_next_year and its helpers                            *)
(* find_nearest_comparison_days, apply_holiday_map, get_weekday_group.     *)
(*                                                                         *)
(* A pandas Timestamp is an integer number of hours since 1970-01-01 00:00 *)
(* (every timestamp and frequency used here is a whole number of hours).   *)
(* A row of the historical DataFrame is a record [ts, value]; the          *)
(* DataFrame is the sequence of its rows in index order, with a unique     *)
(* index.                                                                  *)
(***************************************************************************)
EXTENDS Integers, Sequences, FiniteSets, TLC

VARIABLES files, historical_data, prediction_period, freq, weekday_groups,
          holiday_map, num_days, pc, idx, target_date, weekday, group,
          comparison_days, comparison_data, averaged, predictions,
          returned

vars == <<files, historical_data, prediction_period, freq, weekday_groups,
          holiday_map, num_days, pc, idx, target_date, weekday, group,
          comparison_days, comparison_data, averaged, predictions,
          returned>>

----------------------------------------------------------------------------
(* Bounds of the model *)

\* largest number of rows in the historical files
MaxRows == 5
\* largest num_days tried when find_nearest_comparison_days is called alone
MaxNumDays == 2

----------------------------------------------------------------------------
(* Calendar arithmetic of pandas Timestamps (proleptic Gregorian) *)

HoursPerDay == 24

\* days since 1970-01-01 of the civil date y-m-d
DaysFromCivil(y, m, d) ==
    LET yy  == IF m <= 2 THEN y - 1 ELSE y
        era == yy \div 400
        yoe == yy - era * 400
        mp  == IF m > 2 THEN m - 3 ELSE m + 9
        doy == (153 * mp + 2) \div 5 + d - 1
        doe == yoe * 365 + yoe \div 4 - yoe \div 100 + doy
    IN  era * 146097 + doe - 719468

\* pd.Timestamp('y-m-d h:00')
Timestamp(y, m, d, h) == DaysFromCivil(y, m, d) * HoursPerDay + h

\* the civil date <<year, month, day>> of a timestamp
CivilOf(ts) ==
    LET z   == ts \div HoursPerDay + 719468
        era == z \div 146097
        doe == z - era * 146097
        yoe == (doe - doe \div 1460 + doe \div 36524 - doe \div 146096) \div 365
        doy == doe - (365 * yoe + yoe \div 4 - yoe \div 100)
        mp  == (5 * doy + 2) \div 153
        d   == doy - (153 * mp + 2) \div 5 + 1
        m   == IF mp < 10 THEN mp + 3 ELSE mp - 9
        y   == yoe + era * 400 + (IF m <= 2 THEN 1 ELSE 0)
    IN  <<y, m, d>>

\* Timestamp.month, Timestamp.day
MonthOf(ts) == CivilOf(ts)[2]
DayOf(ts) == CivilOf(ts)[3]

\* Timestamp.weekday(): Monday = 0 ... Sunday = 6 (1970-01-01 was a Thursday)
WeekdayOf(ts) == (ts \div HoursPerDay + 3) % 7

\* Timestamp.time(): the time of day, in hours
TimeOf(ts) == ts % HoursPerDay

\* the calendar date of a timestamp, as a day number
DateOf(ts) == ts \div HoursPerDay

\* Timedelta.days of the difference x - t: the floor of the difference in days
TimedeltaDays(x, t) == (x - t) \div HoursPerDay

Abs(n) == IF n < 0 THEN -n ELSE n

Min(a, b) == IF a <= b THEN a ELSE b

----------------------------------------------------------------------------
(* Inputs the runs are drawn from *)

\* a mean is the pair <<sum, count>>; the missing marker NaN is the mean of
\* no values, 0/0
NaN == <<0, 0>>

\* `returned` holds the returned DataFrame as its only element, and is empty
\* while predict_next_year has returned nothing
NoResult == << >>

Row(y, m, d, h, v) == [ts |-> Timestamp(y, m, d, h), value |-> v]

\* rows the historical files may hold; 25 Dec 2021 is a Saturday, 2022 a
\* Sunday, 2023 a Monday, 2025 a Thursday
CandidateRows ==
    { Row(2021, 12, 25, 0, 5),  Row(2021, 12, 25, 9, 10),
      Row(2022, 12, 25, 9, 20),
      Row(2023, 12, 24, 9, 70),
      Row(2023, 12, 25, 0, 15), Row(2023, 12, 25, 9, 30),
      Row(2023, 12, 25, 10, 40), Row(2023, 12, 25, 11, 50),
      Row(2023, 12, 25, 12, 60),
      Row(2025, 12, 25, 9, 80) }

\* the contents of the files: unique timestamps, at most MaxRows rows
FileContents == { S \in SUBSET CandidateRows : Cardinality(S) <= MaxRows }

AllDays == 0 .. 6

GroupsOne == << [label |-> "All", days |-> {0, 1, 2, 3, 4, 5, 6}] >>

GroupsFour == << [label |-> "Mon-Thu", days |-> {0, 1, 2, 3}],
                 [label |-> "Friday", days |-> {4}],
                 [label |-> "Saturday", days |-> {5}],
                 [label |-> "Sunday", days |-> {6}] >>

\* a map with gaps: Wednesday (2) and Sunday (6) are in no group
GroupsGap == << [label |-> "Mon-Tue", days |-> {0, 1}],
                [label |-> "Thu-Sat", days |-> {3, 4, 5}] >>

GroupMaps == { GroupsOne, GroupsFour, GroupsGap }

Xmas2024 == Timestamp(2024, 12, 25, 0)

\* holiday maps: none, 25 Dec 2024 as a Saturday, 25 Dec 2024 as a Sunday
NoHolidays == << >>
HolidaySaturday == Xmas2024 :> 5
HolidaySunday == Xmas2024 :> 6
HolidayMaps == { NoHolidays, HolidaySaturday, HolidaySunday }

PeriodStarts == { Timestamp(2024, 12, 24, 9), Timestamp(2024, 12, 25, 0),
                  Timestamp(2024, 12, 25, 9) }
PeriodEnds == { Timestamp(2024, 12, 25, 0), Timestamp(2024, 12, 25, 18) }
Freqs == { 9, 24 }

\* targets find_nearest_comparison_days is called with when called alone
SelTargets == { Timestamp(2022, 12, 25, 9), Timestamp(2022, 12, 25, 10),
                Timestamp(2024, 12, 25, 9) }

----------------------------------------------------------------------------
(* Helpers on sequences *)

\* the elements of s at the positions in keep, from position k on, in order
RECURSIVE SelectIdx(_, _, _)
SelectIdx(s, keep, k) ==
    IF k > Len(s) THEN << >>
    ELSE IF k \in keep THEN <<s[k]>> \o SelectIdx(s, keep, k + 1)
         ELSE SelectIdx(s, keep, k + 1)

\* boolean-mask indexing df[mask]: the rows at the kept positions, in order
Mask(s, keep) == SelectIdx(s, keep, 1)

\* DataFrame.sort_index(): the rows in ascending order of timestamp
RECURSIVE SortIndex(_)
SortIndex(rows) ==
    IF rows = {} THEN << >>
    ELSE LET first == CHOOSE r \in rows : \A q \in rows : r.ts <= q.ts
         IN  <<first>> \o SortIndex(rows \ {first})

\* load_historical_data: concatenate the files and sort by index
LoadHistoricalData(contents) == SortIndex(contents)

----------------------------------------------------------------------------
(* The functions of prediction.py *)

\* weekday_groups[group]: the weekday list stored under a label
DaysOfGroup(groups, label) ==
    groups[CHOOSE k \in DOMAIN groups : groups[k].label = label].days

\* Series.nsmallest(n), keep='first': the index labels of the n smallest
\* values, smallest first, equal values in their order of appearance
NSmallest(index, dist, n) ==
    LET rank(p) == Cardinality({ q \in DOMAIN index :
                        \/ dist[q] < dist[p]
                        \/ dist[q] = dist[p] /\ q < p })
    IN  [ r \in 1 .. Min(n, Len(index)) |->
            index[CHOOSE p \in DOMAIN index : rank(p) = r - 1] ]

\* the ranking key: abs((x - target_date).days)
Distance(x, target) == Abs(TimedeltaDays(x, target))

\* a selector that does not restrict the rows to the group of the target
InGroupAny(data, label, groups) == data

\* the rows of the data whose natural weekday is in the group's list
InGroup(data, label, groups) ==
    Mask(data, { k \in DOMAIN data :
                   WeekdayOf(data[k].ts) \in DaysOfGroup(groups, label) })

\* the rows with the month and day of the target
SameMonthDay(data, target) ==
    Mask(data, { k \in DOMAIN data :
                   /\ MonthOf(data[k].ts) = MonthOf(target)
                   /\ DayOf(data[k].ts) = DayOf(target) })

find_nearest_comparison_days(target, data, label, groups, n) ==
    LET days  == SameMonthDay(InGroup(data, label, groups), target)
        index == [ k \in DOMAIN days |-> days[k].ts ]
        dist  == [ k \in DOMAIN days |-> Distance(index[k], target) ]
    IN  NSmallest(index, dist, n)

\* `if holiday_map`: None and the empty dict are both false
Truthy(map) == DOMAIN map # {}

apply_holiday_map(date, map) ==
    IF date \in DOMAIN map THEN map[date] ELSE WeekdayOf(date)

\* the weekday predict_next_year classifies a target with
TargetWeekday(date, map) ==
    IF Truthy(map) THEN apply_holiday_map(date, map) ELSE WeekdayOf(date)

\* the positions of the groups that list the weekday
GroupsWith(day, groups) == { k \in DOMAIN groups : day \in groups[k].days }

\* the outcome of get_weekday_group when it raises instead of returning
ValueError == "ValueError"

\* a classifier that falls back to the first group of the map
get_weekday_group_default(day, groups) ==
    IF GroupsWith(day, groups) = {} THEN groups[1].label
    ELSE groups[CHOOSE k \in GroupsWith(day, groups) :
                   \A j \in GroupsWith(day, groups) : k <= j].label

\* get_weekday_group: the first group, in dict order, listing the weekday;
\* ValueError when no group lists it
get_weekday_group(day, groups) ==
    IF GroupsWith(day, groups) = {} THEN ValueError
    ELSE groups[CHOOSE k \in GroupsWith(day, groups) :
                   \A j \in GroupsWith(day, groups) : k <= j].label

\* historical_data.loc[labels]: the rows with the given index labels, in the
\* order of the labels (the index is unique)
Loc(data, labels) ==
    [ k \in DOMAIN labels |->
        data[CHOOSE p \in DOMAIN data : data[p].ts = labels[k]] ]

\* comparison_data[comparison_data.index.time == target_date.time()]
AtTimeOf(data, target) ==
    Mask(data, { k \in DOMAIN data : TimeOf(data[k].ts) = TimeOf(target) })

RECURSIVE SumValues(_)
SumValues(rows) ==
    IF rows = << >> THEN 0 ELSE Head(rows).value + SumValues(Tail(rows))

\* a mean that is zero for no rows
MeanZero(rows) == IF rows = << >> THEN <<0, 1>> ELSE <<SumValues(rows), Len(rows)>>

\* DataFrame.mean(): the sum over the count; NaN for no rows
Mean(rows) == <<SumValues(rows), Len(rows)>>

\* a range that leaves out the end
date_range_open(start, end, f) ==
    IF start >= end THEN << >>
    ELSE [ k \in 1 .. ((end - start - 1) \div f + 1) |-> start + (k - 1) * f ]

\* pd.date_range(start, end, freq): start, start + freq, ... not beyond end
date_range(start, end, f) ==
    IF start > end THEN << >>
    ELSE [ k \in 1 .. ((end - start) \div f + 1) |-> start + (k - 1) * f ]

\* the targets of the run
Targets == date_range(prediction_period[1], prediction_period[2], freq)

----------------------------------------------------------------------------
(* predict_next_year *)

\* num_days is not passed by predict_next_year: the default of the selector
DefaultNumDays == 4

Init ==
    /\ files \in FileContents
    /\ prediction_period \in PeriodStarts \X PeriodEnds
    /\ freq \in Freqs
    /\ weekday_groups \in GroupMaps
    /\ holiday_map \in HolidayMaps
    /\ num_days = DefaultNumDays
    /\ historical_data = << >>
    /\ pc = "call"
    /\ idx = 0
    /\ target_date = -1
    /\ weekday = -1
    /\ group = ""
    /\ comparison_days = << >>
    /\ comparison_data = << >>
    /\ averaged = << >>
    /\ predictions = << >>
    /\ returned = NoResult

\* lines 65-70: load the files, start with no predictions
Load ==
    /\ pc = "call"
    /\ historical_data' = LoadHistoricalData(files)
    /\ predictions' = << >>
    /\ pc' = "for"
    /\ UNCHANGED <<files, prediction_period, freq, weekday_groups, holiday_map,
                   num_days, idx, target_date, weekday, group,
                   comparison_days, comparison_data, averaged, returned>>

\* line 72: the loop takes the next timestamp of the range
ForNext ==
    /\ pc = "for"
    /\ idx < Len(Targets)
    /\ idx' = idx + 1
    /\ target_date' = Targets[idx + 1]
    /\ pc' = "classify"
    /\ UNCHANGED <<files, historical_data, prediction_period, freq,
                   weekday_groups, holiday_map, num_days, weekday, group,
                   comparison_days, comparison_data, averaged,
                   predictions, returned>>

\* lines 75-78: the weekday of the target and its group
Classify ==
    /\ pc = "classify"
    /\ weekday' = TargetWeekday(target_date, holiday_map)
    /\ get_weekday_group(weekday', weekday_groups) # ValueError
    /\ group' = get_weekday_group(weekday', weekday_groups)
    /\ pc' = "select"
    /\ UNCHANGED <<files, historical_data, prediction_period, freq,
                   weekday_groups, holiday_map, num_days, idx, target_date,
                   comparison_days, comparison_data, averaged,
                   predictions, returned>>

\* lines 75-78 and 48: no group lists the weekday, the ValueError leaves
\* predict_next_year and nothing is returned
ClassifyRaise ==
    /\ pc = "classify"
    /\ weekday' = TargetWeekday(target_date, holiday_map)
    /\ get_weekday_group(weekday', weekday_groups) = ValueError
    /\ pc' = "error"
    /\ UNCHANGED <<files, historical_data, prediction_period, freq,
                   weekday_groups, holiday_map, num_days, idx, target_date,
                   group, comparison_days, comparison_data, averaged,
                   predictions, returned>>

\* line 81
SelectDays ==
    /\ pc = "select"
    /\ comparison_days' = find_nearest_comparison_days(target_date,
                              historical_data, group, weekday_groups, num_days)
    /\ pc' = "aggregate"
    /\ UNCHANGED <<files, historical_data, prediction_period, freq,
                   weekday_groups, holiday_map, num_days, idx, target_date,
                   weekday, group, comparison_data, averaged,
                   predictions, returned>>

\* lines 84-88: average the rows at the target's time of day, append
Aggregate ==
    /\ pc = "aggregate"
    /\ comparison_data' = Loc(historical_data, comparison_days)
    /\ averaged' = AtTimeOf(comparison_data', target_date)
    /\ predictions' = Append(predictions,
                          [Date |-> target_date, Value |-> Mean(averaged')])
    /\ pc' = "for"
    /\ UNCHANGED <<files, historical_data, prediction_period, freq,
                   weekday_groups, holiday_map, num_days, idx, target_date,
                   weekday, group, comparison_days, returned>>

\* lines 91-93: the range is exhausted, the predictions are returned
Return ==
    /\ pc = "for"
    /\ idx >= Len(Targets)
    /\ returned' = <<predictions>>
    /\ pc' = "done"
    /\ UNCHANGED <<files, historical_data, prediction_period, freq,
                   weekday_groups, holiday_map, num_days, idx, target_date,
                   weekday, group, comparison_days, comparison_data, averaged,
                   predictions>>

Next == Load \/ ForNext \/ Classify \/ ClassifyRaise \/ SelectDays
        \/ Aggregate \/ Return

Spec == Init /\ [][Next]_vars

----------------------------------------------------------------------------
(* find_nearest_comparison_days called on its own *)

Labels(groups) == { groups[k].label : k \in DOMAIN groups }

SelInit ==
    /\ files \in FileContents
    /\ historical_data = LoadHistoricalData(files)
    /\ weekday_groups \in GroupMaps
    /\ group \in Labels(weekday_groups)
    /\ target_date \in SelTargets
    /\ num_days \in 1 .. MaxNumDays
    /\ prediction_period = <<target_date, target_date>>
    /\ freq = 24
    /\ holiday_map = NoHolidays
    /\ pc = "sel_call"
    /\ idx = 0
    /\ weekday = -1
    /\ comparison_days = << >>
    /\ comparison_data = << >>
    /\ averaged = << >>
    /\ predictions = << >>
    /\ returned = NoResult

FindNearest ==
    /\ pc = "sel_call"
    /\ comparison_days' = find_nearest_comparison_days(target_date,
                              historical_data, group, weekday_groups, num_days)
    /\ pc' = "sel_done"
    /\ UNCHANGED <<files, historical_data, prediction_period, freq,
                   weekday_groups, holiday_map, num_days, idx, target_date,
                   weekday, group, comparison_data, averaged,
                   predictions, returned>>

SelNext == FindNearest

SelSpec == SelInit /\ [][SelNext]_vars

----------------------------------------------------------------------------
(* Properties of predict_next_year *)

\* a step has been carried through: its prediction is the last one appended
StepDone == pc \in {"for", "done"} /\ idx >= 1

\* the target has been classified
Classified == pc \in {"select", "aggregate", "error"} \/ StepDone

\* no group of the map lists the weekday
Unmapped(day) == \A k \in DOMAIN weekday_groups : day \notin weekday_groups[k].days

\* the weekday lists of the groups partition {0..6}
IsPartition(groups) ==
    \A d \in AllDays : Cardinality({ k \in DOMAIN groups : d \in groups[k].days }) = 1

\* the weekday list of the group the target was classified into
TargetGroupDays ==
    UNION { weekday_groups[k].days :
              k \in { j \in DOMAIN weekday_groups : weekday_groups[j].label = group } }

\* the historical rows of the target's group with the target's month and day
PoolRows ==
    { r \in files : /\ WeekdayOf(r.ts) \in TargetGroupDays
                    /\ CivilOf(r.ts)[2] = CivilOf(target_date)[2]
                    /\ CivilOf(r.ts)[3] = CivilOf(target_date)[3] }

\* C4: a weekday listed in no group ends the run in the error state at the
\* first such step and nothing is returned, whatever was predicted before; a
\* step goes on to selection, and a result is returned, only when every
\* weekday classified so far is listed in a group.
C4_UnmappedWeekdayFatal ==
    /\ pc \in {"select", "aggregate"} \/ StepDone => ~Unmapped(weekday)
    /\ pc = "error" =>
          /\ Unmapped(weekday)
          /\ returned = NoResult
          /\ \A k \in 1 .. idx - 1 :
                ~Unmapped(TargetWeekday(Targets[k], holiday_map))
    /\ returned # NoResult =>
          /\ pc = "done"
          /\ \A k \in DOMAIN Targets :
                ~Unmapped(TargetWeekday(Targets[k], holiday_map))
    /\ Classified => weekday = TargetWeekday(target_date, holiday_map)

\* an unmapped weekday stopped the run after earlier steps were predicted
C4_Witness ==
    pc = "error" /\ idx >= 2 /\ Len(predictions) = idx - 1 /\ returned = NoResult

\* C6: a step whose group holds no row with the target's month and day, or
\* whose selected rows hold none at the target's time of day, is predicted
\* as the missing marker; the run goes on and the result returned has one
\* entry for every step of the period.
C6_EmptyComparisonSet ==
    /\ StepDone =>
          /\ Len(predictions) = idx
          /\ ( \/ PoolRows = {}
               \/ \A k \in DOMAIN comparison_days :
                     TimeOf(comparison_days[k]) # TimeOf(target_date) )
             => predictions[idx].Value = NaN
    /\ pc = "done" =>
          /\ Len(returned[1]) = Len(Targets)
          /\ \A k \in DOMAIN Targets : returned[1][k].Date = Targets[k]

\* a returned result with a missing marker followed by a computed value
C6_Witness ==
    /\ pc = "done"
    /\ \E k \in DOMAIN returned[1] : \E j \in DOMAIN returned[1] :
          /\ k < j
          /\ returned[1][k].Value = NaN
          /\ returned[1][j].Value[2] > 0

\* the timestamps start, start + freq, ... that are not after the end
Steps ==
    { t \in prediction_period[1] .. prediction_period[2] :
        (t - prediction_period[1]) % freq = 0 }

\* C7: the predictions made so far are, in order, the first timestamps of
\* start, start + freq, ... within the period, and the result returned holds
\* every such timestamp up to the end once, in increasing order.
C7_OrderPreservation ==
    prediction_period[1] <= prediction_period[2] =>
      /\ \A k \in DOMAIN predictions :
            /\ predictions[k].Date = prediction_period[1] + (k - 1) * freq
            /\ predictions[k].Date <= prediction_period[2]
      /\ pc = "done" =>
            /\ returned[1] = predictions
            /\ { predictions[k].Date : k \in DOMAIN predictions } = Steps
            /\ Len(predictions) = Cardinality(Steps)
            /\ \A k \in 1 .. Len(predictions) - 1 :
                  predictions[k].Date < predictions[k + 1].Date

\* a returned result of three steps whose last timestamp is the end
C7_Witness ==
    /\ pc = "done"
    /\ Len(returned[1]) >= 3
    /\ returned[1][Len(returned[1])].Date = prediction_period[2]

\* C10: every row averaged for a step is a row of the files with the month,
\* day and time of day of the target and a natural weekday in the list of
\* the target's group; the loaded table stays the sorted file contents.
C10_ContributingRows ==
    /\ StepDone =>
          \A k \in DOMAIN averaged :
            /\ averaged[k] \in files
            /\ CivilOf(averaged[k].ts)[2] = CivilOf(target_date)[2]
            /\ CivilOf(averaged[k].ts)[3] = CivilOf(target_date)[3]
            /\ averaged[k].ts % HoursPerDay = target_date % HoursPerDay
            /\ WeekdayOf(averaged[k].ts) \in TargetGroupDays
    /\ pc # "call" =>
          /\ Len(historical_data) = Cardinality(files)
          /\ { historical_data[k] : k \in DOMAIN historical_data } = files
          /\ \A k \in 1 .. Len(historical_data) - 1 :
                historical_data[k].ts < historical_data[k + 1].ts

\* two rows averaged for a target whose group does not list every weekday,
\* while the files hold a row of another group with the same month and day
C10_Witness ==
    /\ StepDone
    /\ Len(averaged) >= 2
    /\ TargetGroupDays # AllDays
    /\ \E r \in files :
          /\ CivilOf(r.ts)[2] = CivilOf(target_date)[2]
          /\ CivilOf(r.ts)[3] = CivilOf(target_date)[3]
          /\ r.ts % HoursPerDay = target_date % HoursPerDay
          /\ WeekdayOf(r.ts) \notin TargetGroupDays

----------------------------------------------------------------------------
(* Statements the code does not meet *)

\* the days of the target's group with the target's month and day that have
\* an observation at the target's time of day
PoolDays ==
    { DateOf(r.ts) : r \in { q \in PoolRows : TimeOf(q.ts) = TimeOf(target_date) } }

\* the days whose observation entered the average of the step
UsedDays == { DateOf(averaged[k].ts) : k \in DOMAIN averaged }

\* C1: the number of distinct days whose observation enters the average of a
\* step is at most N = 4 and equals min(N, size of the candidate pool of
\* days), also when a day holds several rows.
C1_ComparisonDayCount ==
    StepDone =>
      /\ Cardinality(UsedDays) <= DefaultNumDays
      /\ Cardinality(UsedDays) = Min(DefaultNumDays, Cardinality(PoolDays))

\* the keys of the holiday map on the calendar date of the target
HolidayKeys == { h \in DOMAIN holiday_map : DateOf(h) = DateOf(target_date) }

\* C2: a target whose calendar date is a key of the holiday map is
\* classified with the overridden weekday at every time of day, into the
\* group listing it; any other target with its natural weekday.
C2_HolidayPrecedence ==
    Classified =>
      IF HolidayKeys # {}
      THEN /\ \A h \in HolidayKeys : weekday = holiday_map[h]
           /\ pc # "error" => weekday \in TargetGroupDays
      ELSE weekday = WeekdayOf(target_date)

\* the inputs of Scenario A: 25 Dec of 2021, 2022, 2023 with 10, 20, 30 at
\* 09:00, 25 Dec 2024 mapped to Saturday, the target 25 Dec 2024 09:00
ScenarioA ==
    /\ files = { Row(2021, 12, 25, 9, 10), Row(2022, 12, 25, 9, 20),
                 Row(2023, 12, 25, 9, 30) }
    /\ holiday_map = HolidaySaturday
    /\ target_date = Timestamp(2024, 12, 25, 9)
    /\ IsPartition(weekday_groups)

\* C3: in Scenario A the predicted value is the mean 20 of the three
\* historical values, for every group map that partitions the weekdays.
C3_ScenarioA ==
    ScenarioA /\ StepDone =>
      /\ predictions[idx].Value[2] = 3
      /\ predictions[idx].Value[1] = 20 * 3

\* C5: a period whose start is after its end is never answered with a
\* result: the run does not get to return.
C5_InvalidPeriodRejected ==
    prediction_period[1] > prediction_period[2] =>
      pc # "done" /\ returned = NoResult

----------------------------------------------------------------------------
(* Properties of find_nearest_comparison_days *)

\* the candidates: timestamps of the group's rows with the target's month
\* and day
Candidates == { r.ts : r \in PoolRows }

Selected == { comparison_days[k] : k \in DOMAIN comparison_days }

\* the elapsed time between a candidate and the target, in hours
Elapsed(x) == IF x < target_date THEN target_date - x ELSE x - target_date

\* C8: of two candidates equally far from the target in elapsed time, the
\* later one is selected only if the earlier one is.
C8_TieBreakEarliest ==
    pc = "sel_done" =>
      \A a \in Candidates : \A b \in Candidates :
        a < b /\ Elapsed(a) = Elapsed(b) /\ b \in Selected => a \in Selected

\* the elapsed time between a candidate and the target, in whole days
ElapsedDays(x) == Elapsed(x) \div HoursPerDay

\* C9: a candidate closer to the target than a selected one by a whole day
\* or more of elapsed time is selected too, and a candidate d days and some
\* hours before the target is ranked no farther than one d days and some
\* hours after it.
C9_NearestFirst ==
    pc = "sel_done" =>
      \A a \in Candidates : \A b \in Candidates :
        /\ ElapsedDays(a) < ElapsedDays(b) /\ b \in Selected => a \in Selected
        /\ a < target_date /\ target_date < b /\ ElapsedDays(a) = ElapsedDays(b)
             => Distance(a, target_date) <= Distance(b, target_date)

====
